---- MODULE Spec2Model ----
(***************************************************************************)
(* A model of siv::vector and siv::handle (src/index_vector.hpp): a dense  *)
(* store m_data, a slot metadata table m_metadata of (rid, generation)     *)
(* pairs and an indirection table m_indexes from stable identifier to      *)
(* dense position.  C++ positions and identifiers are 0-based; the tables  *)
(* are TLA+ sequences, so entry i of a table s is s[i + 1] (Get(s, i)).    *)
(***************************************************************************)
EXTENDS Naturals, Integers, Sequences, FiniteSets, TLC

\* ---------------------------------------------------------------- bounds
\* The longest the metadata and indirection tables may grow.
MaxIds == 3
\* The most generation increments the container performs in all (the sum
\* of the slots' generations, each a uint64_t in the code and never wrapped
\* here: an operation that would pass MaxBumps is not taken).
MaxBumps == 3
\* The element values the callers insert.
Values == {"a", "b"}
\* The points of an insert where the allocator (or T's copy) may throw.
OomPoints == {"none", "m_indexes", "m_metadata", "m_data"}

VARIABLES
    m_data,      \* std::vector<T>: the dense store
    m_metadata,  \* std::vector<metadata>: one (rid, generation) per slot
    m_indexes,   \* std::vector<id_type>: identifier -> dense position
    handles,     \* the handle a caller holds (none, or one), with a ghost
                 \* field `erased`: "" while its element lives, then the
                 \* call that removed it ("erase" or "clear")
    inserted,    \* ghost: live identifier -> the value inserted under it
    ret,         \* the last public call: its name, argument and outcome
    history      \* ghost, kept by SpecRecycle alone: what was removed and
                 \* minted so far (see Track)

vars == <<m_data, m_metadata, m_indexes, handles, inserted, ret, history>>

\* ------------------------------------------------------------- helpers
\* s[i] of a 0-based C++ vector.
Get(s, i) == s[i + 1]

\* s with s[i] = x.
Put(s, i, x) == [s EXCEPT ![i + 1] = x]

\* std::swap(s[i], s[j]).
Swap(s, i, j) == [s EXCEPT ![i + 1] = s[j + 1], ![j + 1] = s[i + 1]]

\* s.pop_back().
PopLast(s) == SubSeq(s, 1, Len(s) - 1)

\* The container as one value (the three member vectors).
Vec == [m_data |-> m_data, m_metadata |-> m_metadata, m_indexes |-> m_indexes]

\* size(): m_data.size().
size(v) == Len(v.m_data)

\* ------------------------------------------------------------- queries
\* contains(id): the identifier references a currently live object.
contains(v, id) ==
    id < Len(v.m_indexes) /\ Get(v.m_indexes, id) < Len(v.m_data)

\* index_of(id): the current data index of id.
index_of(v, id) == Get(v.m_indexes, id)

\* generation(id): the generation counter stored for id.
generation(v, id) == Get(v.m_metadata, Get(v.m_indexes, id)).generation

\* is_valid(id, generation): the pair still references the same object.
is_valid(v, id, gen) ==
    IF id >= Len(v.m_indexes) \/ Get(v.m_indexes, id) >= Len(v.m_metadata)
    THEN FALSE
    ELSE gen = Get(v.m_metadata, Get(v.m_indexes, id)).generation

\* handle::valid(): m_vector is the container, never null for an issued handle.
valid(v, h) == is_valid(v, h.m_id, h.m_generation)

\* A next_id() that always answers size().
next_id_size(v) == Len(v.m_data)

\* next_id(): the identifier the next insert would return.
next_id(v) ==
    IF Len(v.m_metadata) > Len(v.m_data)
    THEN Get(v.m_metadata, Len(v.m_data)).rid
    ELSE Len(v.m_data)

\* A check_at whose second bound is off by one: the tail element is refused.
check_at_off_by_one(v, id) ==
    id >= Len(v.m_indexes) \/ Get(v.m_indexes, id) + 1 >= Len(v.m_data)

\* check_at(id): TRUE when it throws std::out_of_range.
check_at(v, id) ==
    id >= Len(v.m_indexes) \/ Get(v.m_indexes, id) >= Len(v.m_data)

\* operator[](id): m_data[m_indexes[id]].
subscript(v, id) == Get(v.m_data, Get(v.m_indexes, id))

\* at(id): the thrown error, or the element.
at(v, id) ==
    IF check_at(v, id)
    THEN [thrown |-> "out_of_range", value |-> "none"]
    ELSE [thrown |-> "", value |-> Get(v.m_data, Get(v.m_indexes, id))]

\* make_handle(id): {id, m_metadata[m_indexes[id]].generation, this}.
make_handle(v, id) ==
    [m_id |-> id,
     m_generation |-> Get(v.m_metadata, Get(v.m_indexes, id)).generation]

\* A make_handle_at that reads the generation through the indirection
\* table, taking the position for an identifier.
make_handle_at_by_id(v, idx) ==
    [m_id |-> Get(v.m_metadata, idx).rid,
     m_generation |-> Get(v.m_metadata, Get(v.m_indexes, idx)).generation]

\* make_handle_at(idx): {m_metadata[idx].rid, m_metadata[idx].generation, this}.
make_handle_at(v, idx) ==
    [m_id |-> Get(v.m_metadata, idx).rid,
     m_generation |-> Get(v.m_metadata, idx).generation]

\* ----------------------------------------------------------- modifiers
\* A get_free_id that appends to m_metadata before m_indexes has reserved,
\* so a failed reserve of m_indexes leaves the metadata entry behind.
get_free_id_desync(v, oom) ==
    IF Len(v.m_metadata) > Len(v.m_data)
    THEN LET slot == Get(v.m_metadata, Len(v.m_data))
             bumped == [slot EXCEPT !.generation = slot.generation + 1]
         IN [v |-> [v EXCEPT !.m_metadata = Put(v.m_metadata, Len(v.m_data), bumped)],
             id |-> slot.rid,
             thrown |-> FALSE]
    ELSE LET new_id == Len(v.m_data)
             md == Append(v.m_metadata, [rid |-> new_id, generation |-> 0])
         IN IF oom = "m_metadata"
            THEN [v |-> v, id |-> new_id, thrown |-> TRUE]
            ELSE IF oom = "m_indexes"
            THEN [v |-> [v EXCEPT !.m_metadata = md], id |-> new_id, thrown |-> TRUE]
            ELSE [v |-> [v EXCEPT !.m_metadata = md,
                                  !.m_indexes = Append(v.m_indexes, new_id)],
                  id |-> new_id,
                  thrown |-> FALSE]

\* A get_free_id that recycles the last hole of the table, not the topmost
\* one (the hole at position size()).
get_free_id_last_hole(v, oom) ==
    IF Len(v.m_metadata) > Len(v.m_data)
    THEN LET pos == Len(v.m_metadata) - 1
             slot == Get(v.m_metadata, pos)
             bumped == [slot EXCEPT !.generation = slot.generation + 1]
         IN [v |-> [v EXCEPT !.m_metadata = Put(v.m_metadata, pos, bumped)],
             id |-> slot.rid,
             thrown |-> FALSE]
    ELSE LET new_id == Len(v.m_data)
         IN IF oom \in {"m_indexes", "m_metadata"}
            THEN [v |-> v, id |-> new_id, thrown |-> TRUE]
            ELSE [v |-> [v EXCEPT
                            !.m_metadata = Append(v.m_metadata,
                                                  [rid |-> new_id, generation |-> 0]),
                            !.m_indexes = Append(v.m_indexes, new_id)],
                  id |-> new_id,
                  thrown |-> FALSE]

\* A get_free_id that never looks for a hole: every insert mints the
\* identifier m_metadata.size().
get_free_id_always_mint(v, oom) ==
    LET new_id == Len(v.m_metadata)
    IN IF oom \in {"m_indexes", "m_metadata"}
       THEN [v |-> v, id |-> new_id, thrown |-> TRUE]
       ELSE [v |-> [v EXCEPT
                       !.m_metadata = Append(v.m_metadata,
                                             [rid |-> new_id, generation |-> 0]),
                       !.m_indexes = Append(v.m_indexes, new_id)],
             id |-> new_id,
             thrown |-> FALSE]

\* get_free_id(): recycle the topmost hole, or mint a new identifier.  oom
\* names the allocation that fails, if any; the two reserves run only on
\* the minting path.
get_free_id(v, oom) ==
    IF Len(v.m_metadata) > Len(v.m_data)
    THEN LET slot == Get(v.m_metadata, Len(v.m_data))
             bumped == [slot EXCEPT !.generation = slot.generation + 1]
         IN [v |-> [v EXCEPT !.m_metadata = Put(v.m_metadata, Len(v.m_data), bumped)],
             id |-> slot.rid,
             thrown |-> FALSE]
    ELSE LET new_id == Len(v.m_data)
         IN IF oom \in {"m_indexes", "m_metadata"}
            THEN [v |-> v, id |-> new_id, thrown |-> TRUE]
            ELSE [v |-> [v EXCEPT
                            !.m_metadata = Append(v.m_metadata,
                                                  [rid |-> new_id, generation |-> 0]),
                            !.m_indexes = Append(v.m_indexes, new_id)],
                  id |-> new_id,
                  thrown |-> FALSE]

\* A get_free_slot that records the position the element has after the
\* append, one past the position it is appended at.
get_free_slot_after_append(v, oom) ==
    LET r == get_free_id(v, oom)
    IN IF r.thrown
       THEN r
       ELSE [r EXCEPT !.v.m_indexes = Put(r.v.m_indexes, r.id, Len(r.v.m_data) + 1)]

\* get_free_slot(): get_free_id(), then m_indexes[id] = m_data.size().
get_free_slot(v, oom) ==
    LET r == get_free_id(v, oom)
    IN IF r.thrown
       THEN r
       ELSE [r EXCEPT !.v.m_indexes = Put(r.v.m_indexes, r.id, Len(r.v.m_data))]

\* push_back(value) / emplace_back(args): get_free_slot(), then the append
\* to m_data, which may throw after the tables were touched.
push_back(v, value, oom) ==
    LET r == get_free_slot(v, oom)
    IN IF r.thrown
       THEN r
       ELSE IF oom = "m_data"
            THEN [r EXCEPT !.thrown = TRUE]
            ELSE [r EXCEPT !.v.m_data = Append(r.v.m_data, value)]

\* An erase that leaves the victim slot's generation as it was.
erase_no_bump(v, id) ==
    LET data_idx == Get(v.m_indexes, id)
        last_data_idx == Len(v.m_data) - 1
        last_id == Get(v.m_metadata, last_data_idx).rid
    IN [m_data |-> PopLast(Swap(v.m_data, data_idx, last_data_idx)),
        m_metadata |-> Swap(v.m_metadata, data_idx, last_data_idx),
        m_indexes |-> Swap(v.m_indexes, id, last_id)]

\* An erase that bumps the tail slot's generation, not the victim's.
erase_bump_tail(v, id) ==
    LET data_idx == Get(v.m_indexes, id)
        last_data_idx == Len(v.m_data) - 1
        last_id == Get(v.m_metadata, last_data_idx).rid
        tail == Get(v.m_metadata, last_data_idx)
        md1 == Put(v.m_metadata, last_data_idx,
                   [tail EXCEPT !.generation = tail.generation + 1])
    IN [m_data |-> PopLast(Swap(v.m_data, data_idx, last_data_idx)),
        m_metadata |-> Swap(md1, data_idx, last_data_idx),
        m_indexes |-> Swap(v.m_indexes, id, last_id)]

\* An erase that drops the tail of m_data without swapping the victim there.
erase_no_data_swap(v, id) ==
    LET data_idx == Get(v.m_indexes, id)
        last_data_idx == Len(v.m_data) - 1
        last_id == Get(v.m_metadata, last_data_idx).rid
        victim == Get(v.m_metadata, data_idx)
        md1 == Put(v.m_metadata, data_idx,
                   [victim EXCEPT !.generation = victim.generation + 1])
    IN [m_data |-> PopLast(v.m_data),
        m_metadata |-> Swap(md1, data_idx, last_data_idx),
        m_indexes |-> Swap(v.m_indexes, id, last_id)]

\* An erase that leaves m_indexes as it was.
erase_no_index_swap(v, id) ==
    LET data_idx == Get(v.m_indexes, id)
        last_data_idx == Len(v.m_data) - 1
        victim == Get(v.m_metadata, data_idx)
        md1 == Put(v.m_metadata, data_idx,
                   [victim EXCEPT !.generation = victim.generation + 1])
    IN [m_data |-> PopLast(Swap(v.m_data, data_idx, last_data_idx)),
        m_metadata |-> Swap(md1, data_idx, last_data_idx),
        m_indexes |-> v.m_indexes]

\* erase(id): bump the victim slot's generation, swap it with the tail in
\* all three tables, shrink the dense store.
erase(v, id) ==
    LET data_idx == Get(v.m_indexes, id)
        last_data_idx == Len(v.m_data) - 1
        last_id == Get(v.m_metadata, last_data_idx).rid
        victim == Get(v.m_metadata, data_idx)
        md1 == Put(v.m_metadata, data_idx,
                   [victim EXCEPT !.generation = victim.generation + 1])
    IN [m_data |-> PopLast(Swap(v.m_data, data_idx, last_data_idx)),
        m_metadata |-> Swap(md1, data_idx, last_data_idx),
        m_indexes |-> Swap(v.m_indexes, id, last_id)]

\* erase_at(idx): erase(m_metadata[idx].rid).
erase_at(v, idx) == erase(v, Get(v.m_metadata, idx).rid)

\* pop_back(): erase_at(m_data.size() - 1).
pop_back(v) == erase_at(v, Len(v.m_data) - 1)

\* The loop of erase_if from index i: an erased position is examined again.
RECURSIVE erase_if_from(_, _, _)
erase_if_from(v, pred, i) ==
    IF i < Len(v.m_data)
    THEN IF Get(v.m_data, i) \in pred
         THEN erase_if_from(erase_at(v, i), pred, i)
         ELSE erase_if_from(v, pred, i + 1)
    ELSE v

\* An erase_if whose loop moves on after a removal, leaving the element the
\* removal swapped into position i unexamined.
RECURSIVE erase_if_skip_from(_, _, _)
erase_if_skip_from(v, pred, i) ==
    IF i < Len(v.m_data)
    THEN IF Get(v.m_data, i) \in pred
         THEN erase_if_skip_from(erase_at(v, i), pred, i + 1)
         ELSE erase_if_skip_from(v, pred, i + 1)
    ELSE v

erase_if_skipping(v, pred) == erase_if_skip_from(v, pred, 0)

\* vector::erase_if(predicate); the predicate is the set of values it accepts.
erase_if(v, pred) == erase_if_from(v, pred, 0)

\* A clear that empties m_data and bumps no generation.
clear_no_bump(v) ==
    [m_data |-> <<>>, m_metadata |-> v.m_metadata, m_indexes |-> v.m_indexes]

\* clear(): m_data.clear(), and every slot's generation bumped once.
clear(v) ==
    [m_data |-> <<>>,
     m_metadata |-> [p \in DOMAIN v.m_metadata |->
                       [v.m_metadata[p] EXCEPT !.generation = @ + 1]],
     m_indexes |-> v.m_indexes]

\* A shrink_to_fit that also cuts m_metadata and m_indexes down to size().
shrink_to_fit_all(v) ==
    [m_data |-> v.m_data,
     m_metadata |-> SubSeq(v.m_metadata, 1, Len(v.m_data)),
     m_indexes |-> SubSeq(v.m_indexes, 1, Len(v.m_data))]

\* shrink_to_fit(): m_data.shrink_to_fit() alone, which changes the capacity
\* of m_data and none of the three vectors' contents.
shrink_to_fit(v) == v

\* reserve(new_cap): the three vectors reserve in turn; a reserve changes a
\* capacity, never a size, and the one named by oom throws.
reserve(v, new_cap, oom) == [v |-> v, thrown |-> oom # "none"]

\* ------------------------------------------------------------ the model
\* The sum of the generations of the slots of md.
RECURSIVE Bumps(_)
Bumps(md) == IF md = <<>> THEN 0 ELSE Head(md).generation + Bumps(Tail(md))

\* The state stays within the bounds.
InBounds(v) ==
    /\ Len(v.m_metadata) <= MaxIds
    /\ Bumps(v.m_metadata) <= MaxBumps

\* The three tables take the values of v.
Store(v) ==
    /\ InBounds(v)
    /\ m_data' = v.m_data
    /\ m_metadata' = v.m_metadata
    /\ m_indexes' = v.m_indexes

\* Ghost: the handles to the live elements under ids are marked erased by how.
MarkErased(ids, how) ==
    {IF h.m_id \in ids /\ h.erased = ""
     THEN [h EXCEPT !.erased = how]
     ELSE h : h \in handles}

\* Ghost: f without the identifiers in ids.
Without(f, ids) == [i \in DOMAIN f \ ids |-> f[i]]

\* The record of a call.
Ret(op, arg, thrown, result) ==
    [op |-> op, arg |-> arg, thrown |-> thrown, result |-> result]

Init ==
    /\ m_data = <<>>
    /\ m_metadata = <<>>
    /\ m_indexes = <<>>
    /\ handles = {}
    /\ inserted = <<>>
    /\ ret = Ret("init", 0, "", 0)
    /\ history = [recent |-> <<>>, removed |-> <<>>, reused |-> {},
                  minted |-> {}, maxsize |-> 0]

\* push_back(value) or emplace_back(value), with the allocation oom failing
\* (the two reserves are reached only when no hole exists).
PushBack(value, oom) ==
    LET r == push_back(Vec, value, oom)
    IN /\ oom \in {"m_indexes", "m_metadata"} => Len(m_metadata) = Len(m_data)
       /\ Store(r.v)
       /\ handles' = handles
       /\ inserted' = IF r.thrown
                      THEN inserted
                      ELSE [i \in DOMAIN inserted \cup {r.id} |->
                              IF i = r.id THEN value ELSE inserted[i]]
       /\ ret' = IF r.thrown
                 THEN Ret("push_back", 0, "bad_alloc", 0)
                 ELSE Ret("push_back", 0, "", r.id)

\* erase(id); the asserts are the caller's obligation.
Erase(id) ==
    /\ id < Len(m_indexes)
    /\ Get(m_indexes, id) < Len(m_data)
    /\ Store(erase(Vec, id))
    /\ handles' = MarkErased({id}, "erase")
    /\ inserted' = Without(inserted, {id})
    /\ ret' = Ret("erase", id, "", 0)

\* erase(h) for the held handle h: asserts h.valid(), then erase(h.id()).
EraseHandle(h) ==
    /\ valid(Vec, h)
    /\ Store(erase(Vec, h.m_id))
    /\ handles' = MarkErased({h.m_id}, "erase")
    /\ inserted' = Without(inserted, {h.m_id})
    /\ ret' = Ret("erase", h.m_id, "", 0)

\* erase_at(idx).
EraseAt(idx) ==
    /\ idx < Len(m_data)
    /\ Store(erase_at(Vec, idx))
    /\ handles' = MarkErased({Get(m_metadata, idx).rid}, "erase")
    /\ inserted' = Without(inserted, {Get(m_metadata, idx).rid})
    /\ ret' = Ret("erase", Get(m_metadata, idx).rid, "", 0)

\* pop_back().
PopBack ==
    /\ Len(m_data) > 0
    /\ Store(pop_back(Vec))
    /\ handles' = MarkErased({Get(m_metadata, Len(m_data) - 1).rid}, "erase")
    /\ inserted' = Without(inserted, {Get(m_metadata, Len(m_data) - 1).rid})
    /\ ret' = Ret("erase", Get(m_metadata, Len(m_data) - 1).rid, "", 0)

\* siv::erase_if(v, pred): the member erase_if, and the count it removed.
EraseIf(pred) ==
    LET old_size == Len(m_data)
        v == erase_if(Vec, pred)
        gone == {i \in DOMAIN inserted : inserted[i] \in pred}
    IN /\ Store(v)
       /\ handles' = MarkErased(gone, "erase")
       /\ inserted' = Without(inserted, gone)
       /\ ret' = Ret("erase_if", 0, "", old_size - Len(v.m_data))

\* clear().
Clear ==
    /\ Store(clear(Vec))
    /\ handles' = MarkErased({h.m_id : h \in handles}, "clear")
    /\ inserted' = <<>>
    /\ ret' = Ret("clear", 0, "", 0)

\* make_handle(id): the caller keeps the handle in place of the one it held.
MakeHandle(id) ==
    /\ id < Len(m_indexes) /\ Get(m_indexes, id) < Len(m_data)
    /\ handles' = {[m_id |-> make_handle(Vec, id).m_id,
                    m_generation |-> make_handle(Vec, id).m_generation,
                    erased |-> ""]}
    /\ ret' = Ret("make_handle", 0, "", 0)
    /\ UNCHANGED <<m_data, m_metadata, m_indexes, inserted, history>>

\* make_handle_at(idx): the caller keeps the handle in place of the one it held.
MakeHandleAt(idx) ==
    /\ idx < Len(m_data)
    /\ handles' = {[m_id |-> make_handle_at(Vec, idx).m_id,
                    m_generation |-> make_handle_at(Vec, idx).m_generation,
                    erased |-> ""]}
    /\ ret' = Ret("make_handle", 0, "", 0)
    /\ UNCHANGED <<m_data, m_metadata, m_indexes, inserted, history>>

\* at(id), for any identifier, minted or not: a const member, it returns
\* at(Vec, id) and writes nothing.
At(id) ==
    /\ at(Vec, id).thrown \in {"", "out_of_range"}
    /\ UNCHANGED vars

\* next_id(): a const member, it returns next_id(Vec) and writes nothing.
NextId ==
    /\ next_id(Vec) \in 0..MaxIds
    /\ UNCHANGED vars

\* is_valid(id, gen) for any identifier and generation: a const member.
IsValid(id, gen) ==
    /\ is_valid(Vec, id, gen) \in BOOLEAN
    /\ UNCHANGED vars

\* generation(id): a const member; the assert is the caller's obligation.
Generation(id) ==
    /\ id < Len(m_indexes)
    /\ generation(Vec, id) \in 0..MaxBumps
    /\ UNCHANGED vars

\* reserve(new_cap), with the reserve of the vector oom failing.
Reserve(new_cap, oom) ==
    LET r == reserve(Vec, new_cap, oom)
    IN /\ Store(r.v)
       /\ ret' = Ret("reserve", 0, IF r.thrown THEN "bad_alloc" ELSE "", 0)
       /\ UNCHANGED <<handles, inserted, history>>

\* shrink_to_fit().
ShrinkToFit ==
    /\ Store(shrink_to_fit(Vec))
    /\ ret' = Ret("shrink_to_fit", 0, "", 0)
    /\ UNCHANGED <<handles, inserted, history>>

\* The calls that change the container.
Modify ==
    \/ \E value \in Values, oom \in OomPoints : PushBack(value, oom)
    \/ \E id \in 0..(MaxIds - 1) : Erase(id)
    \/ \E idx \in 0..(MaxIds - 1) : EraseAt(idx)
    \/ PopBack
    \/ \E pred \in SUBSET Values : EraseIf(pred)
    \/ Clear

\* Ghost: the last element of a non-empty sequence, and the rest.
Last(q) == q[Len(q)]
Front(q) == SubSeq(q, 1, Len(q) - 1)

\* Ghost: the larger of two numbers.
Max(x, y) == IF x >= y THEN x ELSE y

\* Ghost: history after a step of Modify.  recent: the identifiers erased
\* one at a time (erase, erase_at, pop_back) and not handed out again,
\* oldest first, forgotten at a clear or erase_if.  removed: for each
\* identifier removed and not yet reused, its generation g before the
\* removal and the number extra of clears and failed inserts that reached
\* its hole since.  reused: the record of removed, with its identifier, that
\* the latest recycling insert took out of removed.  minted: the
\* identifiers handed out or reserved so far.  maxsize: the largest size() so far, a slot reserved by a failed insert
\* counted as one more.
Track ==
    LET gone == DOMAIN inserted \ DOMAIN inserted'
        born == DOMAIN inserted' \ DOMAIN inserted
        failed == ret'.op = "push_back" /\ ret'.thrown = "bad_alloc"
        grew == Len(m_metadata') > Len(m_metadata)
        top == IF Len(m_metadata) > Len(m_data)
               THEN {Get(m_metadata, Len(m_data)).rid}
               ELSE {}
        hit == IF ret'.op = "clear" THEN DOMAIN history.removed
               ELSE IF failed THEN top
               ELSE {}
    IN history' =
         [recent |->
            IF ret'.op = "erase" THEN Append(history.recent, ret'.arg)
            ELSE IF ret'.op = "push_back"
                 THEN IF failed \/ history.recent = <<>>
                      THEN history.recent
                      ELSE Front(history.recent)
                 ELSE <<>>,
          removed |->
            [id \in (DOMAIN history.removed \cup gone) \ born |->
               IF id \in gone
               THEN [g |-> generation(Vec, id), extra |-> 0]
               ELSE [g |-> history.removed[id].g,
                     extra |-> history.removed[id].extra
                                 + (IF id \in hit THEN 1 ELSE 0)]],
          reused |->
            IF born \cap DOMAIN history.removed = {}
            THEN history.reused
            ELSE {[id |-> id,
                   g |-> history.removed[id].g,
                   extra |-> history.removed[id].extra] :
                     id \in born \cap DOMAIN history.removed},
          minted |->
            history.minted \cup born
              \cup (IF grew THEN {Get(m_metadata', Len(m_metadata)).rid} ELSE {}),
          maxsize |->
            Max(history.maxsize,
                IF failed /\ grew THEN Len(m_data) + 1 ELSE Len(m_data'))]

\* The calls on the container alone.
Next ==
    \/ \E value \in Values, oom \in OomPoints : PushBack(value, oom) /\ UNCHANGED history
    \/ \E id \in 0..(MaxIds - 1) : Erase(id) /\ UNCHANGED history
    \/ \E idx \in 0..(MaxIds - 1) : EraseAt(idx) /\ UNCHANGED history
    \/ PopBack /\ UNCHANGED history
    \/ \E pred \in SUBSET Values : EraseIf(pred) /\ UNCHANGED history
    \/ Clear /\ UNCHANGED history
    \/ \E id \in 0..MaxIds : At(id)
    \/ NextId
    \/ \E id \in 0..MaxIds, gen \in 0..MaxBumps : IsValid(id, gen)
    \/ \E id \in 0..(MaxIds - 1) : Generation(id)
    \/ \E new_cap \in 0..MaxIds, oom \in OomPoints : Reserve(new_cap, oom)
    \/ ShrinkToFit

\* The calls on the container and on the handle a caller holds.
NextHandles ==
    \/ \E value \in Values, oom \in OomPoints : PushBack(value, oom) /\ UNCHANGED history
    \/ \E id \in 0..(MaxIds - 1) : Erase(id) /\ UNCHANGED history
    \/ \E idx \in 0..(MaxIds - 1) : EraseAt(idx) /\ UNCHANGED history
    \/ PopBack /\ UNCHANGED history
    \/ \E pred \in SUBSET Values : EraseIf(pred) /\ UNCHANGED history
    \/ Clear /\ UNCHANGED history
    \/ \E id \in 0..(MaxIds - 1) : MakeHandle(id)
    \/ \E idx \in 0..(MaxIds - 1) : MakeHandleAt(idx)
    \/ \E h \in handles : EraseHandle(h) /\ UNCHANGED history

\* The modifiers, with the history of removals and mintings kept.
NextRecycle ==
    \/ \E value \in Values, oom \in OomPoints : PushBack(value, oom) /\ Track
    \/ \E id \in 0..(MaxIds - 1) : Erase(id) /\ Track
    \/ \E idx \in 0..(MaxIds - 1) : EraseAt(idx) /\ Track
    \/ PopBack /\ Track
    \/ \E pred \in SUBSET Values : EraseIf(pred) /\ Track
    \/ Clear /\ Track

\* The container with no handle issued.
Spec == Init /\ [][Next]_vars

\* The container and one handle.
SpecHandles == Init /\ [][NextHandles]_vars

\* The container and the history of its identifiers.
SpecRecycle == Init /\ [][NextRecycle]_vars

\* ------------------------------------------------------------ the claims
\* The identifiers minted so far, and (ghost) those naming a live element.
Minted == 0..(Len(m_indexes) - 1)
Live == DOMAIN inserted

\* C1: a handle whose element was removed (by erase, erase(handle),
\* erase_at, pop_back, erase_if or clear) is invalid in every later state,
\* also once its identifier names a new element; a handle then made for
\* the new element is valid and carries another generation.
C1_UseAfterErase ==
    \A h \in handles :
        h.erased # "" =>
            /\ ~valid(Vec, h)
            /\ contains(Vec, h.m_id) =>
                 /\ valid(Vec, make_handle(Vec, h.m_id))
                 /\ make_handle(Vec, h.m_id).m_generation # h.m_generation

\* A handle whose element was erased and whose identifier was recycled.
C1_Witness ==
    \E h \in handles :
        h.erased = "erase" /\ contains(Vec, h.m_id) /\ ret.op = "push_back"

\* C2: a handle whose element was not removed stays valid and keeps naming
\* that element, with the value inserted for it, wherever the element sits.
C2_HandleStability ==
    \A h \in handles :
        h.erased = "" =>
            /\ valid(Vec, h)
            /\ contains(Vec, h.m_id)
            /\ h.m_id \in Live
            /\ subscript(Vec, h.m_id) = inserted[h.m_id]

\* A valid handle to a never-recycled element (generation 0, so inserted at
\* the position equal to its identifier) that a swap-erase has moved since.
C2_Witness ==
    \E h \in handles :
        /\ h.erased = ""
        /\ h.m_generation = 0
        /\ index_of(Vec, h.m_id) # h.m_id
        /\ Len(m_data) >= 2

\* C3: operator[](id) and at(id) return the value inserted under id, for
\* every identifier returned by an insert and not removed since.
C3_RoundTrip ==
    \A id \in Live :
        /\ subscript(Vec, id) = inserted[id]
        /\ at(Vec, id) = [thrown |-> "", value |-> inserted[id]]

\* Two live elements of different values, one of them moved by a swap-erase
\* and the other under a recycled identifier.
C3_Witness ==
    \E i, j \in Live :
        /\ inserted[i] # inserted[j]
        /\ generation(Vec, i) = 0 /\ index_of(Vec, i) # i
        /\ generation(Vec, j) > 0

\* C4: a minted identifier is contained exactly when it was returned by an
\* insert and not erased or cleared since, and otherwise its indirection
\* entry is at or above size(); an identifier never minted is not contained.
C4_Liveness ==
    \A id \in 0..MaxIds :
        /\ id \in Minted =>
             /\ contains(Vec, id) <=> id \in Live
             /\ id \notin Live => index_of(Vec, id) >= size(Vec)
        /\ id \notin Minted => ~contains(Vec, id) /\ id \notin Live

\* Right after an erase: a live identifier above a minted one that is not live.
C4_Witness ==
    /\ ret.op = "erase"
    /\ \E i, j \in Minted : i \in Live /\ j \notin Live /\ j < i

\* C5: the metadata and indirection tables are mutually inverse over their
\* whole length, positions below size() hold exactly the live identifiers
\* and the positions from size() up hold only holes.
C5_Structure ==
    /\ Len(m_metadata) = Len(m_indexes)
    /\ \A p \in 0..(Len(m_metadata) - 1) :
         /\ Get(m_metadata, p).rid \in Minted
         /\ Get(m_indexes, Get(m_metadata, p).rid) = p
         /\ p < Len(m_data) <=> Get(m_metadata, p).rid \in Live
    /\ \A id \in Minted :
         /\ Get(m_indexes, id) < Len(m_metadata)
         /\ Get(m_metadata, Get(m_indexes, id)).rid = id
    /\ Len(m_data) <= Len(m_metadata)
    /\ Cardinality(Live) = Len(m_data)

\* One live element, moved from its first position, below two holes.
C5_Witness ==
    /\ Len(m_metadata) = 3
    /\ Len(m_data) = 1
    /\ Get(m_metadata, 0).rid # 0

\* The effect of erase(id) on the other identifiers: p is the victim's
\* position and t the identifier of the tail element before the call.
EraseFrame(id) ==
    LET p == index_of(Vec, id)
        last == Len(m_data) - 1
        t == Get(m_metadata, last).rid
    IN /\ Len(m_data') = Len(m_data) - 1
       /\ {q \in 0..(Len(m_data') - 1) :
             Get(m_metadata', q).rid # Get(m_metadata, q).rid}
            = IF p # last THEN {p} ELSE {}
       /\ {j \in Minted \ {id} : index_of(Vec', j) # index_of(Vec, j)}
            = IF p # last THEN {t} ELSE {}
       /\ p # last =>
            /\ index_of(Vec', t) = p
            /\ Get(m_data', p) = Get(m_data, last)
            /\ Get(m_metadata', p) = Get(m_metadata, last)
       /\ \A q \in 0..(Len(m_data') - 1) :
            q # p => Get(m_data', q) = Get(m_data, q)
       /\ \A j \in Live \ {id} :
            /\ contains(Vec', j)
            /\ subscript(Vec', j) = subscript(Vec, j)
            /\ generation(Vec', j) = generation(Vec, j)

\* C6: erase(id) of a live element shrinks the store by one; when the
\* victim is not the tail, exactly one element, the prior tail, moves (into
\* the victim's position) and exactly one other identifier, the tail's,
\* changes position; when it is the tail, no other position changes; the
\* value and generation of every other live identifier are unchanged.
C6_SwapEraseFrame ==
    [][\A id \in 0..(MaxIds - 1) : Erase(id) => EraseFrame(id)]_vars

\* The state after inserting three values and erasing identifier 0: the
\* one erase so far, of the non-tail element at position 0.
C6_Witness ==
    /\ ret = Ret("erase", 0, "", 0)
    /\ Len(m_metadata) = 3 /\ Len(m_data) = 2
    /\ Bumps(m_metadata) = 1
    /\ index_of(Vec, 2) = 0 /\ index_of(Vec, 1) = 1 /\ index_of(Vec, 0) = 2

\* The state after clear(): nothing is live, no handle is valid, and the
\* metadata and indirection tables keep their lengths and entries.
ClearPost ==
    /\ Len(m_data') = 0
    /\ \A id \in Live : ~contains(Vec', id)
    /\ \A h \in handles' : ~valid(Vec', h)
    /\ Len(m_metadata') = Len(m_metadata)
    /\ m_indexes' = m_indexes
    /\ \A p \in 0..(Len(m_metadata) - 1) :
         Get(m_metadata', p).rid = Get(m_metadata, p).rid

\* C7: after clear() size() is 0, no identifier live before is contained,
\* every handle issued before is invalid and stays so after later inserts,
\* and the table lengths, reverse ids and indirection entries are unchanged.
C7_Clear ==
    [][/\ Clear => ClearPost
       /\ \A h \in handles' : h.erased = "clear" => ~valid(Vec', h)]_vars

\* A handle invalidated by clear() whose identifier names a new element.
C7_Witness ==
    \E h \in handles :
        h.erased = "clear" /\ contains(Vec, h.m_id) /\ ret.op = "push_back"

\* C8: an insert whose allocation fails leaves the three tables as they
\* were before the call.
C8_FailedGrowthPreState ==
    [][ret'.thrown = "bad_alloc" =>
         /\ m_data' = m_data
         /\ m_metadata' = m_metadata
         /\ m_indexes' = m_indexes]_vars

\* The tables of v agree: equal lengths, mutually inverse, holes above.
Synchronized(v) ==
    /\ Len(v.m_metadata) = Len(v.m_indexes)
    /\ Len(v.m_data) <= Len(v.m_metadata)
    /\ \A p \in 0..(Len(v.m_metadata) - 1) :
         /\ Get(v.m_metadata, p).rid < Len(v.m_indexes)
         /\ Get(v.m_indexes, Get(v.m_metadata, p).rid) = p
    /\ \A id \in 0..(Len(v.m_indexes) - 1) :
         /\ Get(v.m_indexes, id) < Len(v.m_metadata)
         /\ Get(v.m_metadata, Get(v.m_indexes, id)).rid = id

\* C9: whichever allocation of an insert fails, the tables stay
\* synchronized, the live elements and their values are those before the
\* call and every handle valid before is valid after; every later call
\* finds and leaves the tables synchronized.
C9_FailedGrowthSync ==
    [][/\ Synchronized(Vec')
       /\ ret'.thrown = "bad_alloc" =>
            /\ m_data' = m_data
            /\ \A id \in Minted :
                 /\ contains(Vec', id) <=> contains(Vec, id)
                 /\ contains(Vec, id) =>
                      /\ subscript(Vec', id) = subscript(Vec, id)
                      /\ generation(Vec', id) = generation(Vec, id)
            /\ \A id \in 0..MaxIds : id \notin Minted => ~contains(Vec', id)
            /\ \A h \in handles : valid(Vec, h) => valid(Vec', h)]_vars

\* A failed insert that left a hole behind, with a valid handle held.
C9_Witness ==
    /\ ret.thrown = "bad_alloc"
    /\ Len(m_metadata) > Len(m_data)
    /\ \E h \in handles : valid(Vec, h)

\* C10: at(id) throws out_of_range exactly when contains(id) is false,
\* that is when id was never minted or is not live, and otherwise returns
\* the element named by id.
C10_CheckedAccess ==
    \A id \in 0..MaxIds :
        /\ at(Vec, id).thrown = "out_of_range" <=> ~contains(Vec, id)
        /\ at(Vec, id).thrown = "out_of_range" <=> id \notin Live
        /\ id \in Live => at(Vec, id) = [thrown |-> "", value |-> inserted[id]]
        /\ id \notin Live => at(Vec, id) = [thrown |-> "out_of_range", value |-> "none"]

\* An erased identifier, a live one and one never minted, all three asked.
C10_Witness ==
    \E i, j, k \in 0..MaxIds :
        /\ i \in Minted /\ i \notin Live /\ at(Vec, i).thrown = "out_of_range"
        /\ j \in Live /\ at(Vec, j).thrown = ""
        /\ k \notin Minted /\ at(Vec, k).thrown = "out_of_range"

\* C11 -- the tables never shrink: over every step (insert, erase,
\* erase_at, pop_back, erase_if, clear, reserve, shrink_to_fit) m_metadata
\* and m_indexes keep one common length that does not decrease; an insert
\* grows it by exactly one when it mints (no hole before the call, no
\* failed reserve) and by zero when it recycles; no other call changes it.
C11_TablesNeverShrink ==
    [][/\ Len(m_metadata') = Len(m_indexes')
       /\ Len(m_metadata') >= Len(m_metadata)
       /\ Len(m_metadata') - Len(m_metadata) =
            IF /\ Len(m_metadata) = Len(m_data)
               /\ \E value \in Values, oom \in {"none", "m_data"} :
                      PushBack(value, oom)
            THEN 1
            ELSE 0]_vars

\* After a shrink_to_fit of a container that has a hole above size().
C11_Witness ==
    /\ ret.op = "shrink_to_fit"
    /\ Len(m_data) >= 1
    /\ Len(m_metadata) > Len(m_data)
    /\ Len(m_indexes) = Len(m_metadata)

\* The generation stored at dense position p, and the identifier stored there.
GenAt(v, p) == Get(v.m_metadata, p).generation
RidAt(v, p) == Get(v.m_metadata, p).rid

\* C12 as stated -- over every step, for every position p of m_metadata, the
\* generation stored at p does not decrease, and it goes up by exactly one
\* when the occupant of p changes (p gains, loses or exchanges its element).
C12_PerPositionMonotone ==
    [][\A p \in 0..(Len(m_metadata) - 1) :
          /\ GenAt(Vec', p) >= GenAt(Vec, p)
          /\ \/ (p < Len(m_data)) # (p < Len(m_data'))
             \/ p < Len(m_data) /\ RidAt(Vec', p) # RidAt(Vec, p)
             => GenAt(Vec', p) = GenAt(Vec, p) + 1]_vars

\* C12 amended -- the generation travels with the identifier: over every
\* step, for every minted identifier, the generation of the entry that
\* carries it (wherever a swap-erase has moved that entry) does not
\* decrease, and it goes up by exactly one in the step that removes the
\* identifier's element and in the step that recycles the identifier.
C12_PerIdentifierEntry ==
    [][\A id \in Minted :
          /\ generation(Vec', id) >= generation(Vec, id)
          /\ RidAt(Vec', index_of(Vec', id)) = id
          /\ (id \in Live) # (id \in DOMAIN inserted')
             => generation(Vec', id) = generation(Vec, id) + 1]_vars

\* Right after an erase that moved the tail's entry, of generation 0, into a
\* position whose previous entry had been erased and recycled before.
C12_Witness ==
    /\ ret.op = "erase"
    /\ Len(m_data) = 2
    /\ Len(m_metadata) = 3
    /\ generation(Vec, ret.arg) = 3
    /\ index_of(Vec, ret.arg) = 2
    /\ GenAt(Vec, 1) = 0
    /\ RidAt(Vec, 1) = 2

\* C13 -- next_id() predicts the next insert: in every state next_id() is
\* the rid at m_metadata[size()] when m_metadata is longer than m_data and
\* size() otherwise, and every insert that returns, returns the identifier
\* next_id() named in the state it started from, under which the new
\* element then sits.  (next_id() writes nothing: NextId leaves vars alone.)
C13_NextIdPrediction ==
    [][/\ next_id(Vec') = IF Len(m_metadata') > Len(m_data')
                          THEN RidAt(Vec', Len(m_data'))
                          ELSE Len(m_data')
       /\ ret'.op = "push_back" /\ ret'.thrown = ""
          => /\ ret'.result = next_id(Vec)
             /\ index_of(Vec', next_id(Vec)) = Len(m_data)
             /\ ~contains(Vec, next_id(Vec))
             /\ contains(Vec', next_id(Vec))]_vars

\* Right after an insert that was handed a recycled identifier different
\* from size(): the prediction came from the hole, not from the size.
C13_Witness ==
    /\ ret.op = "push_back"
    /\ ret.thrown = ""
    /\ ret.result # Len(m_data) - 1
    /\ index_of(Vec, ret.result) = Len(m_data) - 1
    /\ Len(m_metadata) > Len(m_data)

\* C14 -- is_valid means live: whenever is_valid(id, g) is true, by any
\* identifier and generation, contains(id) is true; so is_valid(id,
\* generation(id)) is false for an identifier that is minted but not live.
C14_IsValidMeansLive ==
    \A id \in 0..MaxIds, g \in 0..(MaxBumps + 1) :
        is_valid(Vec, id, g) => contains(Vec, id)

\* The live identifiers of v whose element the predicate accepts.
Satisfying(v, pred) ==
    {id \in 0..(Len(v.m_indexes) - 1) :
        contains(v, id) /\ subscript(v, id) \in pred}

\* What C15 promises of a call erase_if(pred) taking Vec to Vec'.
EraseIfPost(pred) ==
    /\ \A p \in 0..(Len(m_data') - 1) : Get(m_data', p) \notin pred
    /\ \A id \in Minted :
          contains(Vec, id) /\ id \notin Satisfying(Vec, pred)
          => /\ contains(Vec', id)
             /\ subscript(Vec', id) = subscript(Vec, id)
             /\ generation(Vec', id) = generation(Vec, id)
    /\ \A h \in handles :
          valid(Vec, h) /\ h.m_id \notin Satisfying(Vec, pred)
          => h \in handles' /\ valid(Vec', h)
    /\ \A id \in Satisfying(Vec, pred) : ~contains(Vec', id)
    /\ ret'.result = Cardinality(Satisfying(Vec, pred))

\* C15 -- erase_if completeness: after erase_if(pred) no live element
\* satisfies pred; every element that did not satisfy it is still live under
\* the same identifier with the same value and generation, and a handle
\* valid for it stays valid; the count the free function returns (old size
\* minus new size) is the number of elements that satisfied pred.
C15_EraseIfComplete ==
    [][ret'.op = "erase_if"
       => \A pred \in SUBSET Values : EraseIf(pred) => EraseIfPost(pred)]_vars

\* Right after an erase_if that removed the first and the last of three
\* elements and kept the middle one, to which a valid handle is held: the
\* removal at index 0 swapped a satisfying element into index 0.
C15_Witness ==
    /\ ret.op = "erase_if"
    /\ ret.result = 2
    /\ Len(m_data) = 1
    /\ Minted = 0..2
    /\ index_of(Vec, 1) = 0
    /\ generation(Vec, 1) = 0
    /\ \E h \in handles : h.m_id = 1 /\ valid(Vec, h)

\* C16 -- insert postcondition and frame: an insert that returns, returns an
\* identifier that was not live; size() grew by one; the new element sits at
\* index old size() with the inserted value; and every identifier live
\* before keeps its position, value and generation.
C16_InsertFrame ==
    [][\A value \in Values :
          PushBack(value, "none")
          => /\ ~contains(Vec, ret'.result)
             /\ Len(m_data') = Len(m_data) + 1
             /\ contains(Vec', ret'.result)
             /\ index_of(Vec', ret'.result) = Len(m_data)
             /\ subscript(Vec', ret'.result) = value
             /\ \A id \in Minted :
                   contains(Vec, id)
                   => /\ contains(Vec', id)
                      /\ index_of(Vec', id) = index_of(Vec, id)
                      /\ subscript(Vec', id) = subscript(Vec, id)
                      /\ generation(Vec', id) = generation(Vec, id)]_vars

\* Right after an insert into a container that held two elements, one of
\* them moved by an earlier swap-erase, the insert recycling an identifier.
C16_Witness ==
    /\ ret.op = "push_back"
    /\ ret.thrown = ""
    /\ Len(m_data) = 3
    /\ ret.result # 2
    /\ \E id \in Live : id # ret.result /\ index_of(Vec, id) # id

C18_DoubleIncrement ==
    [][/\ ret'.op = "erase"
          => generation(Vec', ret'.arg) = generation(Vec, ret'.arg) + 1
       /\ ret'.op = "push_back" /\ ret'.thrown = ""
            /\ ret'.result \in DOMAIN history.removed
          => generation(Vec', ret'.result) = history.removed[ret'.result].g + 2
       /\ Len(m_metadata') > Len(m_metadata)
          => GenAt(Vec', Len(m_metadata)) = 0]_vars

\* C18 amended -- one increment per event: erase(id) raises generation(id)
\* by exactly one; clear() raises the generation of every minted identifier,
\* hole or live, by exactly one; every insert that finds a hole, whether it
\* returns or its append to m_data throws, raises that hole's generation by
\* exactly one; an identifier is minted at generation 0.  So the insert that
\* recycles an identifier removed at generation g leaves g + 2 + extra,
\* extra counting the clears and failed inserts that reached the hole
\* between the removal and the reuse.
C18_IncrementPerEvent ==
    [][/\ ret'.op = "erase"
          => generation(Vec', ret'.arg) = generation(Vec, ret'.arg) + 1
       /\ ret'.op = "clear"
          => \A id \in Minted :
                generation(Vec', id) = generation(Vec, id) + 1
       /\ ret'.op = "push_back" /\ Len(m_metadata) > Len(m_data)
          => generation(Vec', next_id(Vec)) = generation(Vec, next_id(Vec)) + 1
       /\ ret'.op = "push_back" /\ ret'.thrown = ""
            /\ ret'.result \in DOMAIN history.removed
          => generation(Vec', ret'.result) =
                history.removed[ret'.result].g + 2
                  + history.removed[ret'.result].extra
       /\ Len(m_metadata') > Len(m_metadata)
          => GenAt(Vec', Len(m_metadata)) = 0]_vars

\* Right after the insert that recycled an identifier whose hole a clear or
\* a failed insert had reached since its removal: three above, not two.
C18_Witness ==
    /\ ret.op = "push_back"
    /\ ret.thrown = ""
    /\ \E c \in history.reused :
          /\ c.id = ret.result
          /\ c.extra = 1
          /\ generation(Vec, c.id) = c.g + 3

\* C19 -- dense identifier space: after every step the identifiers minted so
\* far (handed out by an insert or reserved by a failed one) are exactly
\* 0..N-1, N the common length of m_metadata and m_indexes, each the rid of
\* one entry; N is the largest size() so far, counting the slot a failed
\* insert reserved; and a step mints only when size() = N, and mints N.
C19_DenseIdentifiers ==
    [][/\ Len(m_metadata') = Len(m_indexes')
       /\ history'.minted = 0..(Len(m_metadata') - 1)
       /\ {RidAt(Vec', p) : p \in 0..(Len(m_metadata') - 1)} = history'.minted
       /\ history'.maxsize = Len(m_metadata')
       /\ Len(m_metadata') > Len(m_metadata)
          => /\ Len(m_data) = Len(m_metadata)
             /\ Len(m_metadata') = Len(m_metadata) + 1
             /\ RidAt(Vec', Len(m_metadata)) = Len(m_metadata)
             /\ history'.minted \ history.minted = {Len(m_metadata)}]_vars

\* Right after a failed insert that reserved identifier 1: no element was
\* ever removed, so size() was never above 1, and N = 2 counts the reserved
\* slot.
C19_Witness ==
    /\ ret.op = "push_back"
    /\ ret.thrown = "bad_alloc"
    /\ Len(m_data) = 1
    /\ Len(m_metadata) = 2
    /\ history.minted = {0, 1}
    /\ history.maxsize = 2
    /\ history.removed = <<>>
    /\ history.reused = {}

\* C20 -- per-identifier generation monotonicity: over every step no minted
\* identifier's generation decreases; an erase leaves the generation of
\* every other identifier unchanged and raises the erased one's; an insert
\* leaves unchanged every identifier but the one it takes, and raises that
\* one's when it recycles it; clear raises every minted identifier's.
C20_GenerationMonotone ==
    [][/\ \A id \in Minted : generation(Vec', id) >= generation(Vec, id)
       /\ ret'.op = "erase"
          => /\ generation(Vec', ret'.arg) > generation(Vec, ret'.arg)
             /\ \A id \in Minted \ {ret'.arg} :
                   generation(Vec', id) = generation(Vec, id)
       /\ ret'.op = "push_back"
          => \A id \in Minted \ {next_id(Vec)} :
                generation(Vec', id) = generation(Vec, id)
       /\ ret'.op = "push_back" /\ ret'.thrown = "" /\ ret'.result \in Minted
          => generation(Vec', ret'.result) > generation(Vec, ret'.result)
       /\ ret'.op = "clear"
          => \A id \in Minted :
                generation(Vec', id) > generation(Vec, id)]_vars

\* Right after a clear of a container with two minted identifiers: the
\* generation of one went up a second time, that of the other a first time.
C20_Witness ==
    /\ ret.op = "clear"
    /\ Minted = 0..1
    /\ \E id \in Minted :
          /\ generation(Vec, id) = 2
          /\ generation(Vec, 1 - id) = 1

====
